---- MODULE Spec2Model ----
(***************************************************************************)
(* fontMerger.py: for every (locale, weight) unit, rank the candidate      *)
(* fonts of the weight, extract from each the code points no earlier       *)
(* candidate supplied, merge the partial fonts and save the result.        *)
(*                                                                         *)
(* File names are sequences of tokens (a token is an indivisible piece of  *)
(* text), so that lower-casing, substring search and suffix tests are      *)
(* computed, not assumed.  A font file on disk is a record of what the     *)
(* font library reports for it: the units-per-em read (or a read error)    *)
(* and the Unicode cmap (a set of code points, none, or a parse error).    *)
(***************************************************************************)
EXTENDS Integers, Sequences, FiniteSets, TLC

\* ---------------------------------------------------------------- bounds
MaxCodePoint == 2
MaxFiles == 3

CodePoints == 1..MaxCodePoint

\* ------------------------------------------------------ module constants
base_input_dir == "used-fonts"
output_dir == "NotoMultilanguageFonts"
temp_subset_dir == "TempSubsetFonts"

\* The weights and locales explored (a subset of the configured ones).
weights == <<"Regular">>

\* locale_priority: per locale the (key, value) pairs in insertion order.
\* A key is the token sequence of the lower-cased family name.
locale_priority ==
  [sc |-> << <<(<<"notosans", "sc">>), 0>>, <<(<<"notosans", "tc">>), 1>>,
             <<(<<"notosans", "hk">>), 2>>, <<(<<"notosans", "jp">>), 3>>,
             <<(<<"notosans", "kr">>), 4>> >>,
   jp |-> << <<(<<"notosans", "jp">>), 0>>, <<(<<"notosans", "sc">>), 1>>,
             <<(<<"notosans", "tc">>), 2>>, <<(<<"notosans", "hk">>), 3>>,
             <<(<<"notosans", "kr">>), 4>> >>]

Locales == <<"sc", "jp">>

\* Every locale of locale_priority and every weight of the weights list.
ConfiguredLocales == {"sc", "tc", "hk", "jp", "kr"}
ConfiguredWeights ==
  {"Thin", "Light", "Regular", "Medium", "SemiBold", "Bold", "ExtraBold", "Black"}

\* all_tasks of main: locales outermost, weights innermost.
all_tasks ==
  LET n == Len(Locales) * Len(weights)
  IN [k \in 1..n |-> << Locales[((k - 1) \div Len(weights)) + 1],
                        weights[((k - 1) % Len(weights)) + 1] >>]

Range(s) == {s[k] : k \in DOMAIN s}

Units == Range(all_tasks)
WeightSet == Range(weights)

\* ------------------------------------------------------------ file names
\* The names a weight directory may hold.
NameSC == <<"NotoSans", "SC", "-Regular", ".ttf">>
NameJP == <<"NotoSans", "JP", "-Regular", ".ttf">>
NameOther == <<"Roboto", "-Regular", ".ttf">>
NameCondensed == <<"NotoSans", "SC", "-", "Condensed", ".ttf">>

\* A name that contains two keys of every ranking table.
NameBoth == <<"NotoSans", "JP", "-", "NotoSans", "SC", ".ttf">>

FileNames == {NameSC, NameJP, NameOther, NameCondensed, NameBoth}

\* str.lower(), token by token.
LowerToken(t) ==
  CASE t = "NotoSans" -> "notosans"
    [] t = "SC" -> "sc"
    [] t = "JP" -> "jp"
    [] t = "Roboto" -> "roboto"
    [] t = "-Regular" -> "-regular"
    [] t = "Condensed" -> "condensed"
    [] OTHER -> t

Lower(name) == [k \in DOMAIN name |-> LowerToken(name[k])]

\* `key in name`: key is a contiguous part of name.
Contains(name, key) ==
  \E s \in 0..(Len(name) - Len(key)) :
    \A k \in 1..Len(key) : name[s + k] = key[k]

EndsWith(name, suffix) ==
  /\ Len(name) >= Len(suffix)
  /\ \A k \in 1..Len(suffix) : name[Len(name) - Len(suffix) + k] = suffix[k]

\* os.path.join(dir, name) and os.path.basename(path)
Join(dir, name) == [dir |-> dir, name |-> name]
Basename(path) == path.name

is_valid_font(name) ==
  LET lname == Lower(name)
  IN  ~Contains(lname, <<"condensed">>) /\ EndsWith(lname, <<".ttf">>)

WeightDir(weight) == base_input_dir \o "/" \o weight

\* sort_key(path) for a locale: the value of the first key, in table order,
\* that the lower-cased base name contains; 99 when none does.
Unranked == 99

\* A key function that lets the last matching key of the table decide.
sort_key_last(locale, path) ==
  LET t == locale_priority[locale]
      ks == {k \in DOMAIN t : Contains(Lower(Basename(path)), t[k][1])}
  IN  IF ks = {} THEN Unranked
      ELSE t[CHOOSE k \in ks : \A j \in ks : j <= k][2]

RECURSIVE FirstMatch(_, _, _)
FirstMatch(table, name, k) ==
  IF k > Len(table) THEN Unranked
  ELSE IF Contains(name, table[k][1]) THEN table[k][2]
  ELSE FirstMatch(table, name, k + 1)

sort_key(locale, path) ==
  FirstMatch(locale_priority[locale], Lower(Basename(path)), 1)

\* list.sort(key=...): a stable sort.  The element at position i moves
\* behind every element with a smaller key and every earlier element with
\* the same key.
SortByKey(seq, locale) ==
  LET key(i) == sort_key(locale, seq[i])
      rank(i) == Cardinality({j \in DOMAIN seq :
                                \/ key(j) < key(i)
                                \/ key(j) = key(i) /\ j < i}) + 1
  IN  [p \in DOMAIN seq |-> seq[CHOOSE i \in DOMAIN seq : rank(i) = p]]

\* [os.path.join(weight_dir, f) for f in os.listdir(weight_dir) if is_valid_font(f)]
RECURSIVE FilterValid(_, _)
FilterValid(dir, names) ==
  IF names = <<>> THEN <<>>
  ELSE IF is_valid_font(Head(names))
       THEN <<Join(dir, Head(names))>> \o FilterValid(dir, Tail(names))
       ELSE FilterValid(dir, Tail(names))

\* A workspace keyed by the weight alone.
task_temp_dir_by_weight(u) == temp_subset_dir \o "/" \o u[2]

task_temp_dir(u) == temp_subset_dir \o "/" \o u[1] \o "_" \o u[2]
output_path(u) ==
  output_dir \o "/" \o u[1] \o "-NotoSansMultilanguage-" \o u[2] \o ".ttf"
new_name(u) == "NotoSans Multilanguage " \o u[2]
\* Partial fonts saved straight into the shared root.
subset_path_shared(u, path) ==
  [dir |-> temp_subset_dir, name |-> <<"subset_">> \o Basename(path)]

subset_path(u, path) ==
  [dir |-> task_temp_dir(u), name |-> <<"subset_">> \o Basename(path)]


\* ------------------------------------------------------------------ state
VARIABLES
  pc,                    \* per unit: where process_locale_weight stands
  font_paths_all,        \* per unit: the qualifying paths (sorted once ranked)
  valid_fonts,           \* per unit: the paths that passed validation
  rejected_fonts,        \* per unit: (base name, upem) of the rejected ones
  idx,                   \* per unit: position of the running for loop
  cumulative_codepoints, \* per unit: code points covered so far
  subset_fonts,          \* per unit: paths of the partial fonts saved
  log_lines,             \* per unit: the log returned to the caller
  dirKind,               \* per weight: what used-fonts/<weight> is
  listing,               \* per weight: os.listdir order of the directory
  fontFile,              \* per path: what reading the font yields
  subsetOutcome,         \* per unit and path: how subsetting and saving ends
  mergeOutcome,          \* per unit: how merge, rename and save end
  mkdirOutcome,          \* per unit: how os.makedirs of its workspace ends
  tempRootExists,        \* TempSubsetFonts exists
  taskDirs,              \* units whose task_temp_dir exists
  tempFiles,             \* the partial fonts on disk
  outFiles,              \* the merged fonts on disk
  mainpc,                \* where main stands
  submitted,             \* number of tasks main has submitted
  collected,             \* units whose future main has consumed
  all_log_lines,         \* main's aggregated log
  logger,                \* what went to the logging module: (who, kind)
  contribution,          \* per unit: history of the sets added at line 102
  rmFailed,              \* per unit: the last rmtree of its workspace failed
  run,                   \* per unit: 1 on the first call, 2 on the repeat
  prev                   \* per unit: what the first call produced

unitVars == <<pc, font_paths_all, valid_fonts, rejected_fonts, idx,
              cumulative_codepoints, subset_fonts, log_lines, contribution>>
envVars == <<dirKind, listing, fontFile, subsetOutcome, mergeOutcome, mkdirOutcome>>
fsVars == <<tempRootExists, taskDirs, tempFiles, outFiles, rmFailed>>
mainVars == <<mainpc, submitted, collected, all_log_lines>>
vars == <<unitVars, envVars, fsVars, mainVars, logger, run, prev>>

AllPaths == {Join(WeightDir(w), n) : w \in WeightSet, n \in FileNames}
NoFile == Join("", <<>>)

\* What the font library reports for a file.
HeadUnread == [status |-> "unread", unitsPerEm |-> 0]
HeadResults ==
  {[status |-> "raise", unitsPerEm |-> 0]}
    \cup {[status |-> "ok", unitsPerEm |-> v] : v \in {1000, 2048}}
CmapUnread == [status |-> "unread", cps |-> {}]
CmapResults ==
  {[status |-> "raise", cps |-> {}], [status |-> "none", cps |-> {}]}
    \cup {[status |-> "ok", cps |-> S] : S \in SUBSET CodePoints}

\* The environment answers a question the first time it is asked and gives
\* the same answer afterwards (the input files do not change during a run).
ReadChoices(known, unread, results) ==
  IF known = unread THEN results ELSE {known}

\* The directory listings: os.listdir gives the names in an order of its own;
\* here every choice of at most MaxFiles names, in catalogue order or reversed.
Catalogue == <<NameJP, NameCondensed, NameOther, NameSC>>

RECURSIVE PickFrom(_, _)
PickFrom(k, S) ==
  IF k > Len(Catalogue) THEN <<>>
  ELSE (IF k \in S THEN <<Catalogue[k]>> ELSE <<>>) \o PickFrom(k + 1, S)

Reverse(s) == [k \in DOMAIN s |-> s[Len(s) + 1 - k]]

Listings ==
  UNION {{PickFrom(1, S), Reverse(PickFrom(1, S))} :
           S \in {T \in SUBSET DOMAIN Catalogue : Cardinality(T) <= MaxFiles}}

\* For the ranking alone: every order of at most MaxFiles distinct names.
SortListings ==
  UNION {{l \in [1..n -> FileNames] : \A i, j \in 1..n : l[i] = l[j] => i = j} :
           n \in 0..MaxFiles}

Msg(kind, file, n) == [kind |-> kind, file |-> file, n |-> n]

SetAt(f, u, v) == [f EXCEPT ![u] = v]

\* ------------------------------------------------------------------- Init
InitUnits ==
  /\ font_paths_all = [u \in Units |-> <<>>]
  /\ valid_fonts = [u \in Units |-> <<>>]
  /\ rejected_fonts = [u \in Units |-> <<>>]
  /\ idx = [u \in Units |-> 0]
  /\ cumulative_codepoints = [u \in Units |-> {}]
  /\ subset_fonts = [u \in Units |-> <<>>]
  /\ log_lines = [u \in Units |-> <<>>]
  /\ contribution = [u \in Units |-> <<>>]
  /\ run = [u \in Units |-> 1]
  /\ prev = [u \in Units |-> <<>>]

InitEnv ==
  /\ dirKind \in [WeightSet -> {"missing", "file", "dir"}]
  /\ listing \in [WeightSet -> Listings]
  /\ \A w \in WeightSet : dirKind[w] # "dir" => listing[w] = <<>>
  /\ fontFile = [p \in AllPaths |-> [head |-> HeadUnread, cmap |-> CmapUnread]]
  /\ subsetOutcome = [u \in Units |-> [p \in AllPaths |-> "unread"]]
  /\ mergeOutcome = [u \in Units |-> "unread"]
  /\ mkdirOutcome = [u \in Units |-> "unread"]

\* lines 17-18: both roots exist once the module is loaded.
InitFs ==
  /\ tempRootExists = TRUE
  /\ taskDirs = {}
  /\ tempFiles = {}
  /\ outFiles = {}
  /\ rmFailed = [u \in Units |-> FALSE]

\* One direct call process_locale_weight(locale, weight).
Init ==
  /\ InitUnits /\ InitEnv /\ InitFs
  /\ \E a \in Units : pc = [u \in Units |-> IF u = a THEN "start" ELSE "idle"]
  /\ mainpc = "none"
  /\ submitted = 0
  /\ collected = {}
  /\ all_log_lines = <<>>
  /\ logger = {}


\* ------------------------------------------- process_locale_weight, steps
Weight(u) == u[2]
Locale(u) == u[1]
Log(u, msgs) == log_lines' = SetAt(log_lines, u, log_lines[u] \o msgs)
\* logger.info / logger.warning / logger.error, from a unit or from main
MainThread == <<"main", "main">>
Emit(who, kind) == logger' = logger \cup {<<who, kind>>}
Goto(u, where) == pc' = SetAt(pc, u, where)

\* lines 37-41: the weight's input directory must exist.
CheckFolder(u) ==
  /\ pc[u] = "start"
  /\ IF dirKind[Weight(u)] = "missing"
     THEN /\ log_lines' = SetAt(log_lines, u, <<Msg("MissingInputFolder", NoFile, 0)>>)
          /\ Emit(u, "MissingInputFolder")
          /\ Goto(u, "returned")
     ELSE /\ Goto(u, "list")
          /\ UNCHANGED <<log_lines, logger>>
  /\ UNCHANGED <<font_paths_all, valid_fonts, rejected_fonts, idx,
                 cumulative_codepoints, subset_fonts, contribution>>
  /\ UNCHANGED <<envVars, fsVars, mainVars, run, prev>>

\* The qualifying paths are ranked by the locale's table (lines 49-56).
Ranked(locale, paths) == SortByKey(paths, locale)

\* A check that lets any number of qualifying files through.
TooFewNever(paths) == FALSE

\* line 44: fewer than two qualifying files.
TooFew(paths) == Len(paths) < 2

\* lines 43-56: list, filter, require two, rank.  os.listdir raises when
\* the path exists and is no directory; nothing in the function catches it.
ListFonts(u) ==
  /\ pc[u] = "list"
  /\ UNCHANGED <<envVars, fsVars, mainVars, run, prev>>
  /\ UNCHANGED <<valid_fonts, rejected_fonts, cumulative_codepoints,
                 subset_fonts, contribution>>
  /\ IF dirKind[Weight(u)] = "file"
     THEN /\ Goto(u, "raised")
          /\ UNCHANGED <<font_paths_all, idx, log_lines, logger>>
     ELSE \E all \in {FilterValid(WeightDir(Weight(u)), listing[Weight(u)])} :
              IF TooFew(all)
              THEN /\ Goto(u, "returned")
                   /\ font_paths_all' = SetAt(font_paths_all, u, all)
                   /\ log_lines' = SetAt(log_lines, u, <<Msg("InsufficientCandidates", NoFile, 0)>>)
                   /\ Emit(u, "InsufficientCandidates")
                   /\ UNCHANGED idx
              ELSE /\ Goto(u, "validate")
                   /\ idx' = SetAt(idx, u, 1)
                   /\ UNCHANGED <<log_lines, logger>>
                   /\ \E ranked \in {Ranked(Locale(u), all)} :
                        font_paths_all' = SetAt(font_paths_all, u, ranked)

\* A validation that lets every units-per-em through.
AcceptsUpemAny(upem) == TRUE

\* line 64: the reference units-per-em.
AcceptsUpem(upem) == upem = 1000

\* lines 60-71, one iteration: open the font and read its units-per-em.
ValidateFont(u) ==
  /\ pc[u] = "validate"
  /\ idx[u] <= Len(font_paths_all[u])
  /\ LET path == font_paths_all[u][idx[u]]
     IN \E h \in ReadChoices(fontFile[path].head, HeadUnread, HeadResults) :
          /\ fontFile' = [fontFile EXCEPT ![path].head = h]
          /\ IF h.status = "raise"
             THEN /\ Log(u, <<Msg("FailedToRead", path, 0)>>)
                  /\ Emit(u, "FailedToRead")
                  /\ UNCHANGED <<valid_fonts, rejected_fonts>>
             ELSE IF AcceptsUpem(h.unitsPerEm)
             THEN /\ valid_fonts' = SetAt(valid_fonts, u, Append(valid_fonts[u], path))
                  /\ UNCHANGED <<rejected_fonts, log_lines, logger>>
             ELSE /\ rejected_fonts' =
                       SetAt(rejected_fonts, u,
                             Append(rejected_fonts[u], <<Basename(path), h.unitsPerEm>>))
                  /\ UNCHANGED <<valid_fonts, log_lines, logger>>
  /\ idx' = SetAt(idx, u, idx[u] + 1)
  /\ UNCHANGED <<pc, font_paths_all, cumulative_codepoints, subset_fonts, contribution>>
  /\ UNCHANGED <<dirKind, listing, subsetOutcome, mergeOutcome, mkdirOutcome>>
  /\ UNCHANGED <<fsVars, mainVars, run, prev>>

\* The log lines 73-78 add once validation is over.
RECURSIVE RejectedLines(_)
RejectedLines(rej) ==
  IF rej = <<>> THEN <<>>
  ELSE <<Msg("RejectedUpem", Join("", Head(rej)[1]), Head(rej)[2])>>
         \o RejectedLines(Tail(rej))

ValidationLog(rej) ==
  (IF rej # <<>> THEN <<Msg("RejectedHeader", NoFile, 0)>> \o RejectedLines(rej)
   ELSE <<>>) \o <<Msg("GlyphCountsHeader", NoFile, 0)>>

\* A set kept across calls in place of a fresh one.
KeepCumulative(old) == old

\* The cumulative set a unit starts its loop with (line 80).
EmptyCumulative(old) == {}

\* lines 73-83: end of validation; fresh accumulators; create the workspace
\* (os.makedirs creates the missing parents too).  Nothing catches an error
\* of os.makedirs: it leaves the function as an exception.
MakeTempDir(u) ==
  /\ pc[u] = "validate"
  /\ idx[u] > Len(font_paths_all[u])
  /\ Log(u, ValidationLog(rejected_fonts[u]))
  /\ cumulative_codepoints' =
       SetAt(cumulative_codepoints, u, EmptyCumulative(cumulative_codepoints[u]))
  /\ subset_fonts' = SetAt(subset_fonts, u, <<>>)
  /\ contribution' = SetAt(contribution, u, <<>>)
  /\ \E m \in ReadChoices(mkdirOutcome[u], "unread", {"ok", "raises"}) :
       /\ mkdirOutcome' = SetAt(mkdirOutcome, u, m)
       /\ IF m = "ok" \/ u \in taskDirs
          THEN /\ tempRootExists' = TRUE
               /\ taskDirs' = taskDirs \cup {u}
               /\ idx' = SetAt(idx, u, 1)
               /\ Goto(u, "loop")
          ELSE /\ Goto(u, "raised")
               /\ UNCHANGED <<tempRootExists, taskDirs, idx>>
  /\ UNCHANGED <<font_paths_all, valid_fonts, rejected_fonts>>
  /\ UNCHANGED <<tempFiles, outFiles, rmFailed>>
  /\ UNCHANGED <<dirKind, listing, fontFile, subsetOutcome, mergeOutcome>>
  /\ UNCHANGED <<mainVars, logger, run, prev>>

\* A loop that forgets to subtract what is covered.
UniqueCpsNoSubtract(cps, cumulative) == cps

\* line 96: the code points the candidate adds to what is covered already.
UniqueCps(cps, cumulative) == cps \ cumulative

\* A loop that never skips.
IsRedundantNever(unique_cps) == FALSE

\* line 97: nothing new.
IsRedundant(unique_cps) == unique_cps = {}

\* Assignment in place of update.
UpdateCumulativeAssign(cumulative, unique_cps) == unique_cps

\* line 102: set.update.
UpdateCumulative(cumulative, unique_cps) == cumulative \cup unique_cps

\* lines 105-110: the subset of a font keeps the requested code points it maps.
SubsetCps(cps, unique_cps) == cps \cap unique_cps

\* font.save(path): the file at path is created or replaced.
WriteFile(files, file) == {f \in files : f.path # file.path} \cup {file}

\* lines 85-123, one iteration of the per-candidate loop, its try/except included.
ProcessFont(u) ==
  /\ pc[u] = "loop"
  /\ idx[u] <= Len(valid_fonts[u])
  /\ LET path == valid_fonts[u][idx[u]]
     IN \E c \in ReadChoices(fontFile[path].cmap, CmapUnread, CmapResults) :
          /\ fontFile' = [fontFile EXCEPT ![path].cmap = c]
          /\ IF c.status = "raise"
             THEN /\ Log(u, <<Msg("ErrorProcessing", path, 0)>>)
                  /\ Emit(u, "ErrorProcessing")
                  /\ UNCHANGED <<cumulative_codepoints, subset_fonts, contribution,
                                 tempFiles, subsetOutcome>>
             ELSE IF c.status = "none"
             THEN /\ Log(u, <<Msg("NoUnicodeCmap", path, 0)>>)
                  /\ Emit(u, "NoUnicodeCmap")
                  /\ UNCHANGED <<cumulative_codepoints, subset_fonts, contribution,
                                 tempFiles, subsetOutcome>>
             ELSE LET cps == c.cps
                      unique_cps == UniqueCps(cps, cumulative_codepoints[u])
                  IN  IF IsRedundant(unique_cps)
                      THEN /\ Log(u, <<Msg("Redundant", path, Cardinality(cps))>>)
                           /\ UNCHANGED <<cumulative_codepoints, subset_fonts, logger,
                                          contribution, tempFiles, subsetOutcome>>
                      ELSE /\ cumulative_codepoints' =
                                SetAt(cumulative_codepoints, u,
                                      UpdateCumulative(cumulative_codepoints[u], unique_cps))
                           /\ contribution' =
                                SetAt(contribution, u,
                                      Append(contribution[u],
                                             [donor |-> path, cps |-> unique_cps]))
                           /\ \E s \in ReadChoices(subsetOutcome[u][path], "unread",
                                                  {"ok", "raise"}) :
                                /\ subsetOutcome' = [subsetOutcome EXCEPT ![u][path] = s]
                                /\ IF s = "raise" \/ u \notin taskDirs
                                   THEN /\ Log(u, <<Msg("ErrorProcessing", path, 0)>>)
                                        /\ Emit(u, "ErrorProcessing")
                                        /\ UNCHANGED <<subset_fonts, tempFiles>>
                                   ELSE /\ tempFiles' =
                                             WriteFile(tempFiles,
                                                       [path |-> subset_path(u, path),
                                                        donor |-> path,
                                                        cps |-> SubsetCps(cps, unique_cps)])
                                        /\ subset_fonts' =
                                             SetAt(subset_fonts, u,
                                                   Append(subset_fonts[u], subset_path(u, path)))
                                        /\ Log(u, <<Msg("Extracted", path, Cardinality(unique_cps)),
                                                    Msg("Summary", path, Cardinality(unique_cps))>>)
                                        /\ UNCHANGED logger
  /\ idx' = SetAt(idx, u, idx[u] + 1)
  /\ UNCHANGED <<pc, font_paths_all, valid_fonts, rejected_fonts>>
  /\ UNCHANGED <<dirKind, listing, mergeOutcome, mkdirOutcome>>
  /\ UNCHANGED <<tempRootExists, taskDirs, outFiles, rmFailed>>
  /\ UNCHANGED <<mainVars, run, prev>>

\* A return path that leaves the workspace behind.
RemoveTaskDirSkipped(u, ok) ==
  /\ UNCHANGED <<taskDirs, tempFiles>>
  /\ rmFailed' = SetAt(rmFailed, u, FALSE)

\* shutil.rmtree(task_temp_dir, ignore_errors=True): the directory and what it
\* holds go, or the removal fails and the error is swallowed.
RemoveTaskDir(u, ok) ==
  /\ taskDirs' = IF ok THEN taskDirs \ {u} ELSE taskDirs
  /\ tempFiles' = IF ok THEN {f \in tempFiles : f.path.dir # task_temp_dir(u)}
                  ELSE tempFiles
  /\ rmFailed' = SetAt(rmFailed, u, (u \in taskDirs) /\ ~ok)

\* The two log lines 125-126.
LoopLog(u) ==
  <<Msg("TotalUnique", NoFile, Cardinality(cumulative_codepoints[u])),
    Msg("Merging", NoFile, Len(subset_fonts[u]))>>

\* A merge step that asks for two partial fonts.
FewerThanTwoPartials(partials) == Len(partials) < 2

\* line 128: `not subset_fonts`.
NoPartials(partials) == partials = <<>>

\* lines 125-134: no partial font was saved.
NothingToMerge(u) ==
  /\ pc[u] = "loop"
  /\ idx[u] > Len(valid_fonts[u])
  /\ NoPartials(subset_fonts[u])
  /\ Log(u, LoopLog(u) \o <<Msg("NothingToMerge", NoFile, 0)>>)
  /\ Emit(u, "NothingToMerge")
  /\ \E ok \in BOOLEAN : RemoveTaskDir(u, ok)
  /\ Goto(u, "returned")
  /\ UNCHANGED <<font_paths_all, valid_fonts, rejected_fonts, idx,
                 cumulative_codepoints, subset_fonts, contribution>>
  /\ UNCHANGED <<tempRootExists, outFiles>>
  /\ UNCHANGED <<envVars, mainVars, run, prev>>

\* The partial fonts the merger opens, in list order.
FileAt(files, path) == CHOOSE f \in files : f.path = path
Readable(files, paths) == \A k \in DOMAIN paths : \E f \in files : f.path = paths[k]

\* Merger.merge: the merged cmap maps a code point to the glyph of the first
\* font of the list that maps it.
MergedGlyphs(files, paths) ==
  LET covered == UNION {FileAt(files, paths[k]).cps : k \in DOMAIN paths}
      first(c) == CHOOSE k \in DOMAIN paths :
                    /\ c \in FileAt(files, paths[k]).cps
                    /\ \A j \in 1..(k - 1) : c \notin FileAt(files, paths[j]).cps
  IN  [c \in covered |-> FileAt(files, paths[first(c)]).donor]

\* A save that happens whatever merge and rename did.
MergeSucceedsAlways(m, readable) == readable

\* The try block of lines 136-148 reaches its end: nothing in it raised.
MergeSucceeds(m, readable) == m = "ok" /\ readable

\* A merge that takes the partial fonts last first.
MergeInputReversed(u) == Reverse(subset_fonts[u])

\* The fonts given to merger.merge (line 138).
MergeInput(u) == subset_fonts[u]

\* lines 125-157: merge, rename, save (any of the three may raise, and the
\* one except clause handles them alike); the workspace is removed in any case.
MergeFonts(u) ==
  /\ pc[u] = "loop"
  /\ idx[u] > Len(valid_fonts[u])
  /\ ~NoPartials(subset_fonts[u])
  /\ \E m \in ReadChoices(mergeOutcome[u], "unread",
                         {"ok", "raises"}) :
       /\ mergeOutcome' = SetAt(mergeOutcome, u, m)
       /\ IF MergeSucceeds(m, Readable(tempFiles, MergeInput(u)))
          THEN /\ outFiles' =
                    WriteFile(outFiles,
                              [path |-> output_path(u),
                               name |-> new_name(u),
                               input |-> MergeInput(u),
                               glyphs |-> MergedGlyphs(tempFiles, MergeInput(u))])
               /\ Log(u, LoopLog(u) \o <<Msg("Saved", NoFile, 0), Msg("SavedSummary", NoFile, 0)>>)
               /\ Emit(u, "Saved")
          ELSE /\ Log(u, LoopLog(u) \o <<Msg("MergeFailed", NoFile, 0)>>)
               /\ Emit(u, "MergeFailed")
               /\ UNCHANGED outFiles
  /\ \E ok \in BOOLEAN : RemoveTaskDir(u, ok)
  /\ Goto(u, "returned")
  /\ UNCHANGED <<font_paths_all, valid_fonts, rejected_fonts, idx,
                 cumulative_codepoints, subset_fonts, contribution>>
  /\ UNCHANGED <<dirKind, listing, fontFile, subsetOutcome, mkdirOutcome>>
  /\ UNCHANGED <<tempRootExists, mainVars, run, prev>>

\* What a call produced, for comparison with a repeat of it.
Produced(u) ==
  [end |-> pc[u],
   ranked |-> font_paths_all[u],
   valid |-> valid_fonts[u],
   contribution |-> contribution[u],
   merge_input |-> MergeInput(u),
   log |-> log_lines[u],
   output |-> {f \in outFiles : f.path = output_path(u)}]

\* The caller runs the same unit once more: the locals are fresh, the disk
\* is as the first call left it.
Rerun(u) ==
  /\ mainpc = "none"
  /\ pc[u] \in {"returned", "raised"}
  /\ run[u] = 1
  /\ run' = SetAt(run, u, 2)
  /\ prev' = SetAt(prev, u, <<Produced(u)>>)
  /\ Goto(u, "start")
  /\ font_paths_all' = SetAt(font_paths_all, u, <<>>)
  /\ valid_fonts' = SetAt(valid_fonts, u, <<>>)
  /\ rejected_fonts' = SetAt(rejected_fonts, u, <<>>)
  /\ idx' = SetAt(idx, u, 0)
  /\ log_lines' = SetAt(log_lines, u, <<>>)
  /\ UNCHANGED <<cumulative_codepoints, subset_fonts, contribution>>
  /\ UNCHANGED <<envVars, fsVars, mainVars, logger>>

UnitStep(u) ==
  \/ CheckFolder(u)
  \/ ListFonts(u)
  \/ ValidateFont(u)
  \/ MakeTempDir(u)
  \/ ProcessFont(u)
  \/ NothingToMerge(u)
  \/ MergeFonts(u)

Next == \E u \in Units : UnitStep(u)

Spec == Init /\ [][Next]_vars

\* A call and its repeat.
NextRerun == \E u \in Units : UnitStep(u) \/ Rerun(u)

\* The repeat is explored on directories listed in catalogue order whose
\* Noto fonts pass validation (the other files may fail it in any way).
InitRerun ==
  /\ InitUnits /\ InitFs
  /\ dirKind \in [WeightSet -> {"missing", "file", "dir"}]
  /\ listing \in [WeightSet -> {PickFrom(1, S) : S \in SUBSET DOMAIN Catalogue} \cap Listings]
  /\ \A w \in WeightSet : dirKind[w] # "dir" => listing[w] = <<>>
  /\ fontFile =
       [p \in AllPaths |->
          [head |-> IF Contains(Basename(p), <<"NotoSans">>)
                    THEN [status |-> "ok", unitsPerEm |-> 1000]
                    ELSE HeadUnread,
           cmap |-> CmapUnread]]
  /\ subsetOutcome = [u \in Units |-> [p \in AllPaths |-> "unread"]]
  /\ mergeOutcome = [u \in Units |-> "unread"]
  /\ mkdirOutcome = [u \in Units |-> "unread"]
  /\ \E a \in Units : pc = [u \in Units |-> IF u = a THEN "start" ELSE "idle"]
  /\ mainpc = "none"
  /\ submitted = 0
  /\ collected = {}
  /\ all_log_lines = <<>>
  /\ logger = {}

SpecRerun == InitRerun /\ [][NextRerun]_vars

\* The ranking on its own: a call up to line 56, on a directory that holds
\* any choice of names in any order.
InitSort ==
  /\ InitUnits /\ InitFs
  /\ dirKind = [w \in WeightSet |-> "dir"]
  /\ listing \in [WeightSet -> SortListings]
  /\ fontFile = [p \in AllPaths |-> [head |-> HeadUnread, cmap |-> CmapUnread]]
  /\ subsetOutcome = [u \in Units |-> [p \in AllPaths |-> "unread"]]
  /\ mergeOutcome = [u \in Units |-> "unread"]
  /\ mkdirOutcome = [u \in Units |-> "unread"]
  /\ \E a \in Units : pc = [u \in Units |-> IF u = a THEN "start" ELSE "idle"]
  /\ mainpc = "none"
  /\ submitted = 0
  /\ collected = {}
  /\ all_log_lines = <<>>
  /\ logger = {}

NextSort == \E u \in Units : CheckFolder(u) \/ ListFonts(u)

SpecSort == InitSort /\ [][NextSort]_vars

\* ------------------------------------------------------------------- main
\* The fonts main's units read: here the character map of each file is
\* one fixed map per family (the units' own steps are explored under Spec).
MainCmap(name) ==
  IF Contains(name, <<"SC">>) THEN [status |-> "ok", cps |-> CodePoints]
  ELSE IF Contains(name, <<"JP">>) THEN [status |-> "ok", cps |-> {1}]
  ELSE [status |-> "none", cps |-> {}]

InitMainEnv ==
  /\ dirKind \in [WeightSet -> {"missing", "file", "dir"}]
  /\ listing \in [WeightSet -> Listings]
  /\ \A w \in WeightSet : dirKind[w] # "dir" => listing[w] = <<>>
  /\ fontFile = [p \in AllPaths |-> [head |-> HeadUnread, cmap |-> MainCmap(Basename(p))]]
  /\ subsetOutcome = [u \in Units |-> [p \in AllPaths |-> "unread"]]
  /\ mergeOutcome = [u \in Units |-> "unread"]
  /\ mkdirOutcome = [u \in Units |-> "unread"]

\* main starts with nothing submitted.
InitMain ==
  /\ InitUnits /\ InitMainEnv /\ InitFs
  /\ pc = [u \in Units |-> "idle"]
  /\ mainpc = "submit"
  /\ submitted = 0
  /\ collected = {}
  /\ all_log_lines = <<>>
  /\ logger = {}

\* lines 166-169: executor.submit for the next task; a worker picks it up.
Submit ==
  /\ mainpc = "submit"
  /\ submitted < Len(all_tasks)
  /\ submitted' = submitted + 1
  /\ pc' = SetAt(pc, all_tasks[submitted + 1], "start")
  /\ mainpc' = IF submitted + 1 = Len(all_tasks) THEN "collect" ELSE "submit"
  /\ UNCHANGED <<font_paths_all, valid_fonts, rejected_fonts, idx,
                 cumulative_codepoints, subset_fonts, log_lines, contribution>>
  /\ UNCHANGED <<collected, all_log_lines, logger>>
  /\ UNCHANGED <<envVars, fsVars, run, prev>>

\* future.result() without the except clause: the exception leaves the loop.
AfterResultUncaught(raised, allDone) ==
  IF raised THEN "aborted" ELSE IF allDone THEN "cleanup" ELSE "collect"

\* A loop that leaves for the cleanup after the first result.
AfterResultEarly(raised, allDone) == "cleanup"

\* Where main goes after future.result(): the except clause of line 176
\* keeps it in the loop whether or not the unit raised.
AfterResult(raised, allDone) == IF allDone THEN "cleanup" ELSE "collect"

\* An as_completed that never yields a future that holds an exception.
FutureDoneReturnedOnly(state) == state = "returned"

\* line 171: as_completed yields a future once its call returned or raised.
FutureDone(state) == state \in {"returned", "raised"}

\* lines 171-179: as_completed hands over a finished future; its result is
\* the unit's log, or the exception the unit raised, which is caught here.
Collect(u) ==
  /\ mainpc = "collect"
  /\ u \notin collected
  /\ FutureDone(pc[u])
  /\ IF pc[u] = "returned"
     THEN /\ all_log_lines' = all_log_lines \o log_lines[u]
          /\ UNCHANGED logger
     ELSE /\ all_log_lines' = Append(all_log_lines, Msg("UnhandledException", NoFile, 0))
          /\ Emit(MainThread, "UnhandledException")
  /\ collected' = collected \cup {u}
  /\ mainpc' = AfterResult(pc[u] = "raised", collected \cup {u} = Units)
  /\ UNCHANGED submitted
  /\ UNCHANGED <<unitVars, envVars, fsVars, run, prev>>

\* lines 187-192: shutil.rmtree(temp_subset_dir) inside try/except.
RemoveTempRoot ==
  /\ mainpc = "cleanup"
  /\ \E ok \in BOOLEAN :
       IF ok /\ tempRootExists
       THEN /\ tempRootExists' = FALSE
            /\ taskDirs' = {}
            /\ tempFiles' = {}
            /\ Emit(MainThread, "TempDeleted")
       ELSE /\ UNCHANGED <<tempRootExists, taskDirs, tempFiles>>
            /\ Emit(MainThread, "TempDeleteFailed")
  /\ mainpc' = "done"
  /\ UNCHANGED <<submitted, collected, all_log_lines>>
  /\ UNCHANGED <<outFiles, rmFailed>>
  /\ UNCHANGED <<unitVars, envVars, run, prev>>

NextMain ==
  \/ Submit
  \/ \E u \in Units : UnitStep(u)
  \/ \E u \in Units : Collect(u)
  \/ RemoveTempRoot

SpecMain == InitMain /\ [][NextMain]_vars

\* The executor runs every submitted call to its end (each library call
\* returns or raises), and main's thread is never starved.
FairMain ==
  /\ WF_vars(Submit)
  /\ \A u \in Units : WF_vars(UnitStep(u))
  /\ \A u \in Units : WF_vars(Collect(u))
  /\ WF_vars(RemoveTempRoot)

SpecMainLive == InitMain /\ [][NextMain]_vars /\ FairMain


\* ================================================================ claims
Kinds(log) == {log[k].kind : k \in DOMAIN log}
Finished(u) == pc[u] \in {"returned", "raised"}
OutputOf(u) == {o \in outFiles : o.path = output_path(u)}

\* The candidate's character map, as far as it has been read, defines c.
Covers(path, c) ==
  fontFile[path].cmap.status = "ok" /\ c \in fontFile[path].cmap.cps

\* The first candidate of the processing order whose map defines c.
FirstCovering(u, c) ==
  LET ks == {k \in DOMAIN valid_fonts[u] : Covers(valid_fonts[u][k], c)}
  IN  IF ks = {} THEN NoFile
      ELSE valid_fonts[u][CHOOSE k \in ks : \A j \in ks : k <= j]

\* The partial fonts of the unit that are on disk, in list order.
Partials(u) ==
  [k \in DOMAIN subset_fonts[u] |-> FileAt(tempFiles, subset_fonts[u][k])]

InLoop(u) == pc[u] = "loop" /\ Readable(tempFiles, subset_fonts[u])

\* ---------------------------------------------------------------- C1
\* The candidate's loop step did not end in the except clause of line 120.
Processed(u, k) ==
  Msg("ErrorProcessing", valid_fonts[u][k], 0) \notin Range(log_lines[u])

\* The first processed candidate of the processing order whose map defines c.
FirstProcessedCovering(u, c) ==
  LET ks == {k \in DOMAIN valid_fonts[u] :
               Processed(u, k) /\ Covers(valid_fonts[u][k], c)}
  IN  IF ks = {} THEN NoFile
      ELSE valid_fonts[u][CHOOSE k \in ks : \A j \in ks : k <= j]

\* C1: when two processed candidates A and B, A before B, both cover c, the
\* consolidated output has c, from the highest-priority processed candidate
\* that covers it (A, unless a still earlier one does) and never from B; and
\* every code point of the output comes from that one donor.
C1_PriorityWins ==
  \A u \in Units : \A o \in OutputOf(u) :
    /\ \A i, j \in DOMAIN valid_fonts[u] : \A c \in CodePoints :
         (/\ i < j
          /\ Processed(u, i) /\ Covers(valid_fonts[u][i], c)
          /\ Processed(u, j) /\ Covers(valid_fonts[u][j], c))
           => /\ c \in DOMAIN o.glyphs
              /\ o.glyphs[c] = FirstProcessedCovering(u, c)
              /\ o.glyphs[c] # valid_fonts[u][j]
    /\ \A c \in DOMAIN o.glyphs : o.glyphs[c] = FirstProcessedCovering(u, c)

\* The part of C1 the code keeps: a code point of a partial font, and one of
\* the consolidated output, comes from the first candidate of the processing
\* order that covers it, and from no second partial font.
C1_NeverFromLower ==
  \A u \in Units :
    /\ InLoop(u) =>
         \A k \in DOMAIN subset_fonts[u] : \A c \in Partials(u)[k].cps :
           /\ Partials(u)[k].donor = FirstCovering(u, c)
           /\ \A j \in DOMAIN subset_fonts[u] :
                c \in Partials(u)[j].cps => j = k
    /\ \A o \in OutputOf(u) : \A c \in DOMAIN o.glyphs :
         o.glyphs[c] = FirstCovering(u, c)

\* ---------------------------------------------------------------- C2
\* The loop step of unit u ended in the except clause of line 120.
ErrorStep(u) ==
  /\ pc[u] = "loop"
  /\ idx'[u] = idx[u] + 1
  /\ log_lines'[u] =
       Append(log_lines[u], Msg("ErrorProcessing", valid_fonts[u][idx[u]], 0))

\* C2: a candidate step that ends in the except clause leaves the cumulative
\* set and the partial list as they were before the step.
C2_FailedStepContributesNothing ==
  [][\A u \in Units :
       ErrorStep(u) =>
         /\ cumulative_codepoints'[u] = cumulative_codepoints[u]
         /\ subset_fonts'[u] = subset_fonts[u]]_vars

\* ---------------------------------------------------------------- C3
\* C3: during the loop and at its end the partial fonts carry pairwise
\* disjoint sets whose union is the cumulative set.
C3_Partition ==
  \A u \in Units :
    InLoop(u) =>
      /\ \A j, k \in DOMAIN subset_fonts[u] :
           j # k => Partials(u)[j].cps \cap Partials(u)[k].cps = {}
      /\ UNION {Partials(u)[k].cps : k \in DOMAIN subset_fonts[u]}
           = cumulative_codepoints[u]

\* ---------------------------------------------------------------- C4
Contributed(h) == UNION {h[k].cps : k \in DOMAIN h}

\* C4: across the candidate steps the cumulative set never loses an element,
\* it is empty when the loop starts, and it is the union of the
\* contributions (the sets line 102 added) at every point up to the end.
C4_Monotonicity ==
  [][\A u \in Units :
       /\ (pc[u] = "loop" /\ pc'[u] \in {"loop", "returned"})
            => cumulative_codepoints[u] \subseteq cumulative_codepoints'[u]
       /\ (pc'[u] = "loop" /\ idx'[u] = 1) => cumulative_codepoints'[u] = {}
       /\ pc'[u] \in {"loop", "returned"}
            => cumulative_codepoints'[u] = Contributed(contribution'[u])]_vars

\* The loop is over, two candidates contributed and everything is covered.
C4_Witness ==
  \E u \in Units :
    /\ pc[u] = "loop"
    /\ idx[u] > Len(valid_fonts[u])
    /\ Len(contribution[u]) >= 2
    /\ cumulative_codepoints[u] = CodePoints

\* ---------------------------------------------------------------- C5
\* C5: the consolidated output covers exactly the final cumulative set.
C5_OutputCoversCumulative ==
  \A u \in Units : \A o \in OutputOf(u) :
    DOMAIN o.glyphs = cumulative_codepoints[u]

\* ---------------------------------------------------------------- C6
\* C6 as stated: once the call has returned or raised, the workspace is gone.
C6_AsStated ==
  \A u \in Units : Finished(u) => u \notin taskDirs

\* C6 (amended): once the call has returned or raised, the workspace is gone
\* unless its removal failed (rmtree swallows the error and the directory
\* stays); it holds no partial font in the former case.
C6_Cleanup ==
  \A u \in Units :
    (Finished(u) /\ ~rmFailed[u]) =>
      /\ u \notin taskDirs
      /\ \A f \in tempFiles : f.path.dir # task_temp_dir(u)

\* A unit saved its output and its workspace, once created, is gone.
C6_Witness ==
  \E u \in Units :
    /\ pc[u] = "returned"
    /\ "Saved" \in Kinds(log_lines[u])
    /\ mkdirOutcome[u] = "ok"
    /\ u \notin taskDirs

\* ---------------------------------------------------------------- C7
\* What belongs to unit v: its locals, its workspace and its output file.
UnitView(v) ==
  <<pc[v], idx[v], font_paths_all[v], valid_fonts[v], rejected_fonts[v],
    cumulative_codepoints[v], subset_fonts[v], log_lines[v],
    v \in taskDirs, {f \in tempFiles : f.path.dir = task_temp_dir(v)},
    OutputOf(v)>>

Stepped(u) == pc'[u] # pc[u] \/ idx'[u] # idx[u]

\* C7: main never leaves its loop early and goes on to the cleanup only with
\* every unit finished and collected; a step of one unit, failing or not,
\* and a step of main's loop leave every other unit, its workspace and its
\* output as they are; the output a unit saved is on disk and its own.
C7_Isolation ==
  [][/\ mainpc' \in {"submit", "collect", "cleanup", "done"}
     /\ mainpc' \in {"cleanup", "done"} =>
          (collected' = Units /\ \A u \in Units : pc'[u] \in {"returned", "raised"})
     /\ \A u, v \in Units :
          (u # v /\ Stepped(u)) => UnitView(v)' = UnitView(v)
     /\ collected' # collected => \A v \in Units : UnitView(v)' = UnitView(v)
     /\ \A u \in Units :
          "Saved" \in Kinds(log_lines'[u]) =>
            \E o \in OutputOf(u)' : o.name = new_name(u) /\ o.input = MergeInput(u)']_vars

\* main is done, one unit raised, main caught it, and another unit saved its
\* output.
C7_Witness ==
  /\ mainpc = "done"
  /\ \E u, v \in Units :
       /\ u # v
       /\ pc[u] = "raised"
       /\ "Saved" \in Kinds(log_lines[v])
       /\ OutputOf(v) # {}
  /\ Msg("UnhandledException", NoFile, 0) \in Range(all_log_lines)

\* ---------------------------------------------------------------- C8
\* C8: an output file exists only for a unit whose partial list is not empty
\* and whose merge, rename and save all succeeded; a unit that ends with an
\* empty list or a failed merge has no output and says so in its log.
C8_OutputOnlyOnSuccess ==
  \A u \in Units :
    /\ OutputOf(u) # {} =>
         /\ subset_fonts[u] # <<>>
         /\ mergeOutcome[u] = "ok"
         /\ "Saved" \in Kinds(log_lines[u])
    /\ (pc[u] = "returned" /\ "Merging" \in Kinds(log_lines[u])) =>
         /\ subset_fonts[u] = <<>> =>
              (OutputOf(u) = {} /\ "NothingToMerge" \in Kinds(log_lines[u]))
         /\ mergeOutcome[u] = "raises" =>
              (OutputOf(u) = {} /\ "MergeFailed" \in Kinds(log_lines[u]))

\* A unit with partial fonts whose merge raised has returned.
C8_Witness ==
  \E u \in Units :
    /\ pc[u] = "returned"
    /\ subset_fonts[u] # <<>>
    /\ mergeOutcome[u] = "raises"
    /\ "MergeFailed" \in Kinds(log_lines[u])

\* ---------------------------------------------------------------- C9
\* The loop step of unit u handles a candidate with no Unicode map, or one
\* whose code points are all covered already.
SkipStep(u) ==
  /\ pc[u] = "loop"
  /\ idx'[u] = idx[u] + 1
  /\ LET c == fontFile'[valid_fonts[u][idx[u]]].cmap
     IN  \/ c.status = "none"
         \/ c.status = "ok" /\ c.cps \subseteq cumulative_codepoints[u]

\* C9: such a step changes neither the cumulative set nor the partial list
\* nor the files of the workspace; no partial font is ever empty.
C9_RedundantSkipped ==
  [][\A u \in Units :
       /\ SkipStep(u) =>
            /\ cumulative_codepoints'[u] = cumulative_codepoints[u]
            /\ subset_fonts'[u] = subset_fonts[u]
            /\ tempFiles' = tempFiles
       /\ \A f \in tempFiles' : f.cps # {}]_vars

\* A candidate with code points of its own was skipped as redundant, and
\* another one for want of a Unicode map.
C9_Witness ==
  \E u \in Units :
    /\ \E k \in DOMAIN log_lines[u] :
         log_lines[u][k].kind = "Redundant" /\ log_lines[u][k].n > 0
    /\ "NoUnicodeCmap" \in Kinds(log_lines[u])
    /\ Len(subset_fonts[u]) = 1

FailureKinds == {"MissingInputFolder", "InsufficientCandidates",
                 "NothingToMerge", "MergeFailed"}

FailureRecords(u) ==
  (Kinds(log_lines[u]) \cap FailureKinds)
    \cup (IF pc[u] = "raised" THEN {"UnhandledException"} ELSE {})

\* C11: main submits every unit, and eventually every unit is finished and
\* collected and main is at its end; a finished unit has exactly one outcome:
\* its output file on disk and no failure record, or no output and one
\* failure record (skipped, NothingToMerge, MergeFailed, or the exception
\* main records).
C11_OneOutcome ==
  /\ <>(/\ mainpc = "done"
        /\ submitted = Len(all_tasks)
        /\ \A u \in Units : Finished(u) /\ u \in collected)
  /\ [](\A u \in Units :
         Finished(u) =>
           \/ OutputOf(u) # {} /\ FailureRecords(u) = {}
                /\ "Saved" \in Kinds(log_lines[u])
           \/ OutputOf(u) = {} /\ Cardinality(FailureRecords(u)) = 1)
  /\ [](\A u \in Units :
         (u \in collected /\ pc[u] = "raised") =>
           Msg("UnhandledException", NoFile, 0) \in Range(all_log_lines))

\* Main is done with one unit that saved its output and one that raised.
C11_Witness ==
  /\ mainpc = "done"
  /\ \E u, v \in Units :
       /\ OutputOf(u) # {} /\ FailureRecords(u) = {}
       /\ pc[v] = "raised" /\ OutputOf(v) = {}

\* ---------------------------------------------------------------- C12
\* The unit has ranked its qualifying paths (line 56 is behind it).
HasRanked(u) == pc[u] = "validate" \/ (pc[u] = "loop" /\ dirKind[Weight(u)] = "dir")

\* The positions of the ranking table whose key is part of the lower-cased
\* base name, and the priority the first of them gives.
MatchingKeys(u, path) ==
  {k \in DOMAIN locale_priority[Locale(u)] :
     Contains(Lower(Basename(path)), locale_priority[Locale(u)][k][1])}

FirstKeyPriority(u, path) ==
  locale_priority[Locale(u)][CHOOSE k \in MatchingKeys(u, path) :
                               \A j \in MatchingKeys(u, path) : k <= j][2]

PositionIn(seq, x) == CHOOSE k \in DOMAIN seq : seq[k] = x

\* C12: the ranked list holds the qualifying paths of the listing, each once;
\* ranked files come in ascending priority of their first matching key;
\* a file that matches no key has a key above every table value and comes
\* after all ranked files; files of equal priority keep the listing's order.
C12_CandidateOrdering ==
  \A u \in Units :
    HasRanked(u) =>
      LET orig == FilterValid(WeightDir(Weight(u)), listing[Weight(u)])
          r == font_paths_all[u]
          matched(p) == MatchingKeys(u, p) # {}
      IN  /\ Len(r) = Len(orig)
          /\ Range(r) = Range(orig)
          /\ \A i \in DOMAIN r :
               IF matched(r[i])
               THEN sort_key(Locale(u), r[i]) = FirstKeyPriority(u, r[i])
               ELSE /\ sort_key(Locale(u), r[i]) = Unranked
                    /\ \A k \in DOMAIN locale_priority[Locale(u)] :
                         locale_priority[Locale(u)][k][2] < Unranked
          /\ \A i, j \in DOMAIN r :
               i < j =>
                 /\ matched(r[j]) => matched(r[i])
                 /\ (matched(r[i]) /\ matched(r[j])) =>
                      FirstKeyPriority(u, r[i]) <= FirstKeyPriority(u, r[j])
                 /\ (\/ ~matched(r[i]) /\ ~matched(r[j])
                     \/ /\ matched(r[i]) /\ matched(r[j])
                        /\ FirstKeyPriority(u, r[i]) = FirstKeyPriority(u, r[j]))
                      => PositionIn(orig, r[i]) < PositionIn(orig, r[j])

\* Locale sc, listing Roboto, JP-SC, SC: the two names whose first matching
\* key is the locale's own keep their order, the unranked one went last.
C12_Witness ==
  \E u \in Units :
    /\ pc[u] = "validate"
    /\ Locale(u) = "sc"
    /\ listing[Weight(u)] = <<NameOther, NameBoth, NameSC>>
    /\ font_paths_all[u] =
         <<Join(WeightDir(Weight(u)), NameBoth), Join(WeightDir(Weight(u)), NameSC),
           Join(WeightDir(Weight(u)), NameOther)>>

\* ---------------------------------------------------------------- C13
\* The file opens and its units-per-em is 1000.
PassesValidation(path) ==
  fontFile[path].head = [status |-> "ok", unitsPerEm |-> 1000]

Accepted(paths) == SelectSeq(paths, PassesValidation)

\* The candidates the per-candidate loop has handled, in the order it
\* handled them: every iteration logs one message of these kinds.
IsLoopMsg(m) ==
  m.kind \in {"ErrorProcessing", "NoUnicodeCmap", "Redundant", "Extracted"}

LoopFiles(log) ==
  LET ms == SelectSeq(log, IsLoopMsg) IN [k \in DOMAIN ms |-> ms[k].file]

\* C13: validation goes through the whole ranked list whatever it meets; a
\* file that raises on opening or whose units-per-em is not 1000 never
\* enters the loop; the loop handles exactly the ranked list without the
\* rejected files, in rank order, each once.
C13_ProcessingOrder ==
  \A u \in Units :
    /\ pc[u] = "validate" =>
         valid_fonts[u] = Accepted(SubSeq(font_paths_all[u], 1, idx[u] - 1))
    /\ pc[u] = "loop" =>
         /\ valid_fonts[u] = Accepted(font_paths_all[u])
         /\ LoopFiles(log_lines[u]) = SubSeq(valid_fonts[u], 1, idx[u] - 1)
    /\ (pc[u] = "returned" /\ "Merging" \in Kinds(log_lines[u])) =>
         /\ valid_fonts[u] = Accepted(font_paths_all[u])
         /\ LoopFiles(log_lines[u]) = valid_fonts[u]

\* Three ranked files, the middle one rejected, and the loop has handled the
\* two others.
C13_Witness ==
  \E u \in Units :
    /\ pc[u] = "loop"
    /\ Len(font_paths_all[u]) = 3
    /\ valid_fonts[u] = <<font_paths_all[u][1], font_paths_all[u][3]>>
    /\ idx[u] = 3

\* ---------------------------------------------------------------- C14
\* The unit opened no font, asked for no workspace and started no merge.
Untouched(u) ==
  /\ \A p \in AllPaths :
       /\ fontFile[p].head = HeadUnread
       /\ fontFile[p].cmap = CmapUnread
       /\ subsetOutcome[u][p] = "unread"
  /\ mkdirOutcome[u] = "unread"
  /\ mergeOutcome[u] = "unread"
  /\ u \notin taskDirs
  /\ \A f \in tempFiles : f.path.dir # task_temp_dir(u)
  /\ OutputOf(u) = {}

\* C14: a unit whose input directory is missing, or holds fewer than two
\* qualifying files, ends by returning the one failure message, and it never
\* created its workspace, opened a candidate or wrote an output.
C14_SkippedUnits ==
  \A u \in Units :
    /\ (pc[u] \notin {"idle", "start"} /\ dirKind[Weight(u)] = "missing") =>
         /\ pc[u] = "returned"
         /\ log_lines[u] = <<Msg("MissingInputFolder", NoFile, 0)>>
         /\ Untouched(u)
    /\ (/\ pc[u] \notin {"idle", "start", "list"}
        /\ dirKind[Weight(u)] = "dir"
        /\ Len(FilterValid(WeightDir(Weight(u)), listing[Weight(u)])) < 2) =>
         /\ pc[u] = "returned"
         /\ log_lines[u] = <<Msg("InsufficientCandidates", NoFile, 0)>>
         /\ Untouched(u)
    /\ (pc[u] \in {"start", "list"}) => Untouched(u)

\* A directory of two files, one of them a condensed font: the unit was
\* skipped for want of candidates.
C14_Witness ==
  \E u \in Units :
    /\ pc[u] = "returned"
    /\ Len(listing[Weight(u)]) = 2
    /\ "InsufficientCandidates" \in Kinds(log_lines[u])

\* ---------------------------------------------------------------- C15
\* Main is at or past the removal of the shared root only with every unit
\* finished.
RootAfterUnits ==
  mainpc \in {"cleanup", "done"} => \A u \in Units : Finished(u)

\* C15 as stated: the removal comes after every unit, and at the end of the
\* run no workspace and no shared root is left.
C15_AsStated ==
  /\ RootAfterUnits
  /\ mainpc = "done" => (~tempRootExists /\ taskDirs = {} /\ tempFiles = {})

\* C15 (amended): the removal comes after every unit; at the end of the run
\* no workspace and no shared root is left, unless the removal of the shared
\* root failed, which main logs as a warning.
C15_RootRemovedLast ==
  /\ RootAfterUnits
  /\ mainpc = "done" =>
       \/ /\ ~tempRootExists /\ taskDirs = {} /\ tempFiles = {}
          /\ <<MainThread, "TempDeleted">> \in logger
       \/ /\ tempRootExists
          /\ <<MainThread, "TempDeleteFailed">> \in logger

\* The run is over, a unit's own cleanup had failed, and the removal of the
\* shared root took the leftover workspace with it.
C15_Witness ==
  /\ mainpc = "done"
  /\ ~tempRootExists
  /\ taskDirs = {}
  /\ \E u \in Units : rmFailed[u] /\ "Saved" \in Kinds(log_lines[u])

\* ---------------------------------------------------------------- C16
\* The records a unit writes whether or not its cleanup fails.
RegularKinds ==
  {"MissingInputFolder", "InsufficientCandidates", "FailedToRead",
   "RejectedHeader", "RejectedUpem", "GlyphCountsHeader", "NoUnicodeCmap",
   "Redundant", "Extracted", "Summary", "ErrorProcessing", "TotalUnique",
   "Merging", "NothingToMerge", "Saved", "SavedSummary", "MergeFailed"}

\* Something in the unit's log or in the logger tells of a failed cleanup.
CleanupFailureLogged(u) ==
  \/ \E k \in Kinds(log_lines[u]) : k \notin RegularKinds
  \/ \E e \in logger : e[1] = u /\ e[2] \notin RegularKinds

\* The part of C16 the code keeps: a failed removal is never escalated.  The
\* unit whose workspace stayed has returned its log with the outcome it had,
\* and main, whose removal of the shared root failed, is done all the same.
C16_NeverEscalated ==
  /\ \A u \in Units :
       rmFailed[u] =>
         /\ pc[u] = "returned"
         /\ Cardinality(Kinds(log_lines[u])
                          \cap {"Saved", "MergeFailed", "NothingToMerge"}) = 1
         /\ "Saved" \in Kinds(log_lines[u]) <=> OutputOf(u) # {}
  /\ <<MainThread, "TempDeleteFailed">> \in logger => mainpc = "done"

\* C16: a failed removal of a workspace, the unit's own or the shared root,
\* is logged and not escalated.
C16_CleanupFailureLogged ==
  /\ C16_NeverEscalated
  /\ \A u \in Units : rmFailed[u] => CleanupFailureLogged(u)
  /\ (mainpc = "done" /\ tempRootExists) =>
       <<MainThread, "TempDeleteFailed">> \in logger

\* ---------------------------------------------------------------- C17
\* Over the whole configuration, two distinct units never get the same
\* workspace path or the same output path, and no workspace is the output
\* directory or the shared root.
PathsDisjoint ==
  \A u, v \in ConfiguredLocales \X ConfiguredWeights :
    /\ u # v => /\ task_temp_dir(u) # task_temp_dir(v)
                /\ output_path(u) # output_path(v)
    /\ task_temp_dir(u) \notin {temp_subset_dir, output_dir}

\* What unit v may write or remove: its workspace, the files in it, its
\* output file.
WriteTargets(v) ==
  <<v \in taskDirs, {f \in tempFiles : f.path.dir = task_temp_dir(v)}, OutputOf(v)>>

\* C17: distinct units have distinct workspace and output paths; every
\* partial font lies in the workspace of the unit that lists it, every output
\* carries its unit's path; and a workspace, a file in it or an output
\* changes only in a step of its own unit (or, for workspaces, when main
\* removes the shared root at the end).
C17_DisjointTargets ==
  [][/\ PathsDisjoint
     /\ \A f \in tempFiles' :
          Cardinality({u \in Units : f.path.dir = task_temp_dir(u)}) = 1
     /\ \A o \in outFiles' :
          Cardinality({u \in Units : o.path = output_path(u)}) = 1
     /\ \A u \in Units : \A k \in DOMAIN subset_fonts'[u] :
          subset_fonts'[u][k].dir = task_temp_dir(u)
     /\ \A v \in Units :
          WriteTargets(v)' # WriteTargets(v) =>
            \/ Stepped(v) /\ \A w \in Units \ {v} : ~Stepped(w)
            \/ mainpc = "cleanup" /\ mainpc' = "done" /\ OutputOf(v)' = OutputOf(v)]_vars

\* Two units hold a workspace with a partial font in it at the same time.
C17_Witness ==
  \E u, v \in Units :
    /\ u # v
    /\ {u, v} \subseteq taskDirs
    /\ pc[u] = "loop" /\ pc[v] = "loop"
    /\ \E f, g \in tempFiles :
         f.path.dir = task_temp_dir(u) /\ g.path.dir = task_temp_dir(v)

\* ---------------------------------------------------------------- C18
\* What the unit computes when it runs alone, as a function of what its
\* inputs answer: the files' heads and character maps, and how its own
\* library calls end.  The loop over the validated candidates from
\* position k on, given the set covered, the partial list and the glyphs
\* the partial fonts carry so far:
RECURSIVE AloneLoop(_, _, _, _)
AloneLoop(u, paths, k, acc) ==
  IF k > Len(paths) THEN acc
  ELSE LET path == paths[k]
           c == fontFile[path].cmap
           new == c.cps \ acc.cumulative
       IN  IF c.status # "ok" \/ new = {}
           THEN AloneLoop(u, paths, k + 1, acc)
           ELSE IF subsetOutcome[u][path] # "ok"
           THEN AloneLoop(u, paths, k + 1,
                          [acc EXCEPT !.cumulative = acc.cumulative \cup new])
           ELSE AloneLoop(u, paths, k + 1,
                          [cumulative |-> acc.cumulative \cup new,
                           partials |-> Append(acc.partials,
                                               [dir |-> task_temp_dir(u),
                                                name |-> <<"subset_">> \o Basename(path)]),
                           glyphs |-> [x \in DOMAIN acc.glyphs \cup new |->
                                         IF x \in new THEN path ELSE acc.glyphs[x]]])

AloneStart == [cumulative |-> {}, partials |-> <<>>, glyphs |-> <<>>]

\* The loop alone, over the first n of the validated candidates.
AloneAfter(u, valid, n) == AloneLoop(u, SubSeq(valid, 1, n), 1, AloneStart)

\* How the unit ends when it runs alone, its loop ending with partial list
\* partials.
AloneOutcome(u, partials) ==
  IF dirKind[Weight(u)] = "missing" THEN "MissingInputFolder"
  ELSE IF dirKind[Weight(u)] = "file" THEN "raised"
  ELSE IF Len(font_paths_all[u]) < 2 THEN "InsufficientCandidates"
  ELSE IF mkdirOutcome[u] # "ok" THEN "raised"
  ELSE IF partials = <<>> THEN "NothingToMerge"
  ELSE IF mergeOutcome[u] = "ok" THEN "Saved"
  ELSE "MergeFailed"

Outcome(u) ==
  IF pc[u] = "raised" THEN {"raised"}
  ELSE Kinds(log_lines[u]) \cap (FailureKinds \cup {"Saved"})

\* C18: whatever the other unit and main do in between, a unit's cumulative
\* set and partial list are, at every point of its loop and at its end, what
\* the unit computes alone from its ranked, validated candidates (C12, C13)
\* and the same inputs; so are its outcome and the content of its output.
C18_InterleavingIndependence ==
  \A u \in Units :
    /\ pc[u] = "loop" =>
         LET now == AloneAfter(u, valid_fonts[u], idx[u] - 1)
         IN  /\ cumulative_codepoints[u] = now.cumulative
             /\ subset_fonts[u] = now.partials
    /\ Finished(u) =>
         LET end == AloneAfter(u, valid_fonts[u], Len(valid_fonts[u]))
             outcome == AloneOutcome(u, end.partials)
         IN  /\ Outcome(u) = {outcome}
             /\ outcome \in {"NothingToMerge", "Saved", "MergeFailed"} =>
                  /\ cumulative_codepoints[u] = end.cumulative
                  /\ subset_fonts[u] = end.partials
             /\ outcome = "Saved" =>
                  \A o \in OutputOf(u) : o.glyphs = end.glyphs
             /\ outcome # "Saved" => OutputOf(u) = {}

\* Both units have saved an output, each from the same two files, and the
\* other unit was still in its loop when the first one merged.
C18_Witness ==
  \E u, v \in Units :
    /\ u # v
    /\ pc[u] = "returned" /\ OutputOf(u) # {}
    /\ pc[v] = "loop" /\ idx[v] = 2 /\ subset_fonts[v] # <<>>

\* ---------------------------------------------------------------- C19
\* The unit passed the two-candidate check of line 44 and is finished.
PastMinimum(u) ==
  Finished(u) /\ dirKind[Weight(u)] = "dir" /\ Len(font_paths_all[u]) >= 2

\* Every code point of the output comes from the one donor.
SingleDonorOutput(u, donor) ==
  /\ OutputOf(u) # {}
  /\ \A o \in OutputOf(u) :
       /\ Len(o.input) = 1
       /\ DOMAIN o.glyphs # {}
       /\ \A c \in DOMAIN o.glyphs : o.glyphs[c] = donor

DonorPositions(u, k) ==
  {i \in DOMAIN valid_fonts[u] :
     subset_fonts[u][k] =
       [dir |-> task_temp_dir(u), name |-> <<"subset_">> \o Basename(valid_fonts[u][i])]}

\* The loop has got past position i of the validated candidates.
Handled(u, i) == pc[u] = "returned" \/ i < idx[u]

\* C20: in the loop and after it, every entry of the partial list is the
\* partial font of exactly one validated candidate the loop has handled, the
\* entries follow the candidates' order with no candidate twice, each
\* entry's candidate contributed a non-empty set, and the merge step was
\* given exactly this list.
C20_PartialListSubsequence ==
  \A u \in Units :
    /\ (pc[u] = "loop" \/ (pc[u] = "returned" /\ "Merging" \in Kinds(log_lines[u]))) =>
         /\ \A k \in DOMAIN subset_fonts[u] :
              /\ Cardinality(DonorPositions(u, k)) = 1
              /\ \A i \in DonorPositions(u, k) :
                   /\ Handled(u, i)
                   /\ \E j \in DOMAIN contribution[u] :
                        /\ contribution[u][j].donor = valid_fonts[u][i]
                        /\ contribution[u][j].cps # {}
         /\ \A k, l \in DOMAIN subset_fonts[u] :
              k < l => \A i \in DonorPositions(u, k) :
                         \A j \in DonorPositions(u, l) : i < j
    /\ \A o \in OutputOf(u) : o.input = subset_fonts[u]
    /\ pc[u] \in {"idle", "start", "list", "validate"} => subset_fonts[u] = <<>>

\* Three validated candidates, the middle one left no partial font, and the
\* two others were merged.
C20_Witness ==
  \E u \in Units :
    /\ pc[u] = "returned"
    /\ Len(valid_fonts[u]) = 3
    /\ Len(subset_fonts[u]) = 2
    /\ DonorPositions(u, 1) = {1}
    /\ DonorPositions(u, 2) = {3}
    /\ OutputOf(u) # {}

====
